---- MODULE Spec2Model ----
(***************************************************************************)
(* Customer churn notebook: data preparation, training jobs, batch         *)
(* transform job and evaluation, modelled cell by cell.                    *)
(*                                                                         *)
(* A DataFrame is a record                                                 *)
(*   [columns : sequence of column names, dtypes : sequence of dtypes,     *)
(*    index   : sequence of row labels,   data   : sequence of rows]       *)
(* where a column name is a tuple: <<"Day Mins">> for a column of the      *)
(* file, <<"State", "KS">> for the indicator column State_KS made by       *)
(* get_dummies.  A prediction score s is the integer s * ScoreScale.       *)
(***************************************************************************)
EXTENDS Integers, Sequences, FiniteSets, TLC

VARIABLES
    pc,               \* the cell the kernel runs next, "done" or "halted"
    error,            \* the exception that halted the run, "" if none
    bound,            \* names bound in the kernel's namespace
    raw,              \* churn.txt as pd.read_csv parses it
    churn,            \* the frame `churn`
    model_data,       \* the frame `model_data`
    train_data, validation_data, test_data,
    test_data_batch,  \* the frame submitted for batch scoring
    files,            \* local files: name -> rows written (header=False, index=False)
    s3,               \* data objects in the bucket: key -> rows
    artifacts,        \* model artifacts in the bucket: key -> content
    training,         \* training jobs submitted, in order
    transforms,       \* transform jobs submitted, in order
    batch_output,     \* the scores read from the transform job's output
    pred_y,           \* np.round(batch_output)
    test_y,           \* the actual labels handed to get_score
    output,           \* the evaluator's report
    now,              \* the clock (UTC), in seconds
    run,              \* the number of the notebook run: 1, 2, ...
    split_runs,       \* how often the split cell ran in this run
    transformJobName, \* the extension's job name, "" while not assigned
    submitted         \* the job names of the extension's requests, in order

vars == <<pc, error, bound, raw, churn, model_data, train_data, validation_data,
          test_data, test_data_batch, files, s3, artifacts, training, transforms,
          batch_output, pred_y, test_y, output, now, run, split_runs,
          transformJobName, submitted>>

----------------------------------------------------------------------------
(* Bounds of the model *)

\* rows of the input table
MaxRows == 4
\* resolution of a prediction score: scores are 0/ScoreScale .. ScoreScale/ScoreScale
ScoreScale == 4
\* length of the label sequences handed to the evaluator on its own
MaxLabels == 3
\* rows of the tables the split cell is run on, on its own
MaxTableRows == 100
\* executions of the split cell in one run
MaxSplits == 2
\* runs of the notebook in one session
MaxRuns == 2
\* seconds the clock advances while the extension's cells are run
MaxTime == 2
\* requests the extension sends to the batch service
MaxSubmissions == 3

----------------------------------------------------------------------------
(* Sequences *)

Range(s) == {s[i] : i \in 1..Len(s)}

IndexOf(s, x) == CHOOSE i \in 1..Len(s) : s[i] = x

\* s without the elements at the positions in drop
DropPositions(s, drop) ==
    LET F[i \in 0..Len(s)] ==
            IF i = 0 THEN <<>>
            ELSE IF i \in drop THEN F[i-1] ELSE Append(F[i-1], s[i])
    IN F[Len(s)]

\* the elements of s at the positions pos[1], pos[2], ... (0-based positions)
Take(s, pos) == [i \in 1..Len(pos) |-> s[pos[i] + 1]]

\* s[from:to] of Python: 0-based, to exclusive
Slice(s, from, to) ==
    IF to <= from THEN <<>> ELSE [i \in 1..(to - from) |-> s[from + i]]

SeqsUpTo(S, n) == UNION {[1..k -> S] : k \in 0..n}

----------------------------------------------------------------------------
(* DataFrame operations *)

EmptyFrame == [columns |-> <<>>, dtypes |-> <<>>, index |-> <<>>, data |-> <<>>]

NRows(df) == Len(df.data)

HasColumn(df, c) == \E i \in 1..Len(df.columns) : df.columns[i] = c

ColumnPos(df, c) == IndexOf(df.columns, c)

Column(df, c) == [r \in 1..NRows(df) |-> df.data[r][ColumnPos(df, c)]]

\* DataFrame.drop(names, axis=1); the caller checks the names exist (KeyError)
DropColumns(df, names) ==
    LET drop == {i \in 1..Len(df.columns) : df.columns[i] \in names}
    IN [columns |-> DropPositions(df.columns, drop),
        dtypes  |-> DropPositions(df.dtypes, drop),
        index   |-> df.index,
        data    |-> [r \in 1..NRows(df) |-> DropPositions(df.data[r], drop)]]

\* df[c].astype(t) assigned back to df[c]
AsType(df, c, t) == [df EXCEPT !.dtypes[ColumnPos(df, c)] = t]

\* a selection that keeps every column (df.iloc[:, 0:])
ILocColumnsAll(df, from) == df

\* df.iloc[:, from:] (0-based column positions)
ILocColumnsFrom(df, from) ==
    [columns |-> Slice(df.columns, from, Len(df.columns)),
     dtypes  |-> Slice(df.dtypes, from, Len(df.dtypes)),
     index   |-> df.index,
     data    |-> [r \in 1..NRows(df) |-> Slice(df.data[r], from, Len(df.data[r]))]]

\* df.take(pos): the rows at the 0-based positions pos, labels kept
TakeRows(df, pos) ==
    [df EXCEPT !.index = Take(df.index, pos), !.data = Take(df.data, pos)]

\* rows from..to-1 of df (0-based), labels kept
SliceRows(df, from, to) ==
    [df EXCEPT !.index = Slice(df.index, from, to), !.data = Slice(df.data, from, to)]

\* DataFrame.to_csv(header=False, index=False): the rows alone, without the
\* column names and without the row labels
ToCsv(df) == df.data

----------------------------------------------------------------------------
(* The input file *)

\* the 21 attributes of churn.txt, in file order
RawColumns ==
    << <<"State">>, <<"Account Length">>, <<"Area Code">>, <<"Phone">>,
       <<"Int'l Plan">>, <<"VMail Plan">>, <<"VMail Message">>,
       <<"Day Mins">>, <<"Day Calls">>, <<"Day Charge">>,
       <<"Eve Mins">>, <<"Eve Calls">>, <<"Eve Charge">>,
       <<"Night Mins">>, <<"Night Calls">>, <<"Night Charge">>,
       <<"Intl Mins">>, <<"Intl Calls">>, <<"Intl Charge">>,
       <<"CustServ Calls">>, <<"Churn?">> >>

\* the dtypes pd.read_csv infers for them
RawDtypes ==
    << "object", "int64", "int64", "object", "object", "object", "int64",
       "float64", "int64", "float64", "float64", "int64", "float64",
       "float64", "int64", "float64", "float64", "int64", "float64",
       "int64", "object" >>

\* a missing field, as pd.read_csv parses it
NaN == "nan"

\* one line of the file; the fields the model does not vary are fixed.  The
\* area code, the one integer column that becomes categorical, is held as
\* its numeral.
RawRow(state, area, phone, intl, vmail, daymins, churned) ==
    << state, 128, area, phone, intl, vmail, 25,
       daymins, 110, 45, 197, 99, 16, 244, 91, 11, 10, 3, 2, 1, churned >>

\* the customer profiles the lines of an input file are drawn from
Profiles ==
    << [state |-> "KS", area |-> "415", intl |-> "no",  vmail |-> "yes",
        daymins |-> 265, churned |-> "False."],
       [state |-> "OH", area |-> "408", intl |-> "yes", vmail |-> "no",
        daymins |-> 161, churned |-> "True."],
       [state |-> "KS", area |-> "408", intl |-> "yes", vmail |-> NaN,
        daymins |-> 243, churned |-> "True."],
       [state |-> "OH", area |-> "415", intl |-> "no",  vmail |-> "no",
        daymins |-> 299, churned |-> "False."] >>

\* the phone number of the customer on line i: every line has its own
Phone(i) ==
    CASE i = 1 -> "382-4657"
      [] i = 2 -> "371-7191"
      [] i = 3 -> "358-1921"
      [] i = 4 -> "375-9999"
      [] i = 5 -> "330-6626"
      [] OTHER -> "391-8027"

\* pd.read_csv of a file whose lines hold the given profiles: a RangeIndex
\* from 0
ReadCsv(lines) ==
    [columns |-> RawColumns, dtypes |-> RawDtypes,
     index |-> [i \in 1..Len(lines) |-> i - 1],
     data |-> [i \in 1..Len(lines) |->
                 RawRow(lines[i].state, lines[i].area, Phone(i), lines[i].intl,
                        lines[i].vmail, lines[i].daymins, lines[i].churned)]]

InputFiles == {ReadCsv(l) : l \in SeqsUpTo(Range(Profiles), MaxRows)}

----------------------------------------------------------------------------
(* Duplicate rows *)

\* DataFrame.duplicated(keep='first'): the positions of the rows equal to an
\* earlier row
Duplicated(df) ==
    {i \in 1..NRows(df) : \E j \in 1..(i-1) : df.data[j] = df.data[i]}

\* a drop_duplicates that removes one duplicated row per call
DropDuplicatesOnePerCall(df) ==
    LET dup == Duplicated(df)
        one == IF dup = {} THEN {} ELSE {CHOOSE i \in dup : \A j \in dup : i <= j}
    IN [df EXCEPT !.index = DropPositions(df.index, one),
                  !.data  = DropPositions(df.data, one)]

\* a drop_duplicates that keeps the last occurrence (keep='last')
DropDuplicatesKeepLast(df) ==
    LET dup == {i \in 1..NRows(df) :
                  \E j \in (i+1)..NRows(df) : df.data[j] = df.data[i]}
    IN [df EXCEPT !.index = DropPositions(df.index, dup),
                  !.data  = DropPositions(df.data, dup)]

\* DataFrame.drop_duplicates(): the rows that are not duplicated, labels kept
DropDuplicates(df) ==
    [df EXCEPT !.index = DropPositions(df.index, Duplicated(df)),
               !.data  = DropPositions(df.data, Duplicated(df))]

----------------------------------------------------------------------------
(* One-hot encoding *)

\* the values of a categorical column in sorted order (the order get_dummies
\* gives the indicator columns of a field)
CategoryOrder(c) ==
    CASE c = <<"State">>      -> <<"KS", "OH">>
      [] c = <<"Area Code">>  -> <<"408", "415">>
      [] c = <<"Int'l Plan">> -> <<"no", "yes">>
      [] c = <<"VMail Plan">> -> <<"no", "yes">>
      [] c = <<"Churn?">>     -> <<"False.", "True.">>
      [] OTHER                -> <<>>

\* the positions of the columns get_dummies encodes: dtype object
ObjectPositions(df) == {i \in 1..Len(df.columns) : df.dtypes[i] = "object"}

\* the levels of column i present in the data, sorted; a missing value is no
\* level (dummy_na=False)
Levels(df, i) ==
    SelectSeq(CategoryOrder(df.columns[i]),
              LAMBDA v : \E r \in 1..NRows(df) : df.data[r][i] = v)

\* the concatenation of the sequences in a sequence of sequences
Flatten(ss) ==
    LET F[i \in 0..Len(ss)] == IF i = 0 THEN <<>> ELSE F[i-1] \o ss[i]
    IN F[Len(ss)]

\* the object columns' positions in column order
ObjectColumns(df) ==
    SelectSeq([i \in 1..Len(df.columns) |-> i], LAMBDA i : i \in ObjectPositions(df))

\* an encoding that marks every level up to the row's value (a cumulative code)
GetDummiesCumulative(df) ==
    LET obj == ObjectColumns(df)
        rest == DropColumns(df, {df.columns[i] : i \in ObjectPositions(df)})
        names == Flatten([k \in 1..Len(obj) |->
                    [l \in 1..Len(Levels(df, obj[k])) |->
                        <<df.columns[obj[k]][1], Levels(df, obj[k])[l]>>]])
        bits(r) == Flatten([k \in 1..Len(obj) |->
                    [l \in 1..Len(Levels(df, obj[k])) |->
                        IF \E m \in l..Len(Levels(df, obj[k])) :
                              df.data[r][obj[k]] = Levels(df, obj[k])[m]
                        THEN 1 ELSE 0]])
    IN [columns |-> rest.columns \o names,
        dtypes  |-> rest.dtypes \o [k \in 1..Len(names) |-> "uint8"],
        index   |-> df.index,
        data    |-> [r \in 1..NRows(df) |-> rest.data[r] \o bits(r)]]

\* pd.get_dummies(df): the other columns in order, then for each object column
\* in order one indicator column per level, 1 where the row has that level
GetDummies(df) ==
    LET obj == ObjectColumns(df)
        rest == DropColumns(df, {df.columns[i] : i \in ObjectPositions(df)})
        names == Flatten([k \in 1..Len(obj) |->
                    [l \in 1..Len(Levels(df, obj[k])) |->
                        <<df.columns[obj[k]][1], Levels(df, obj[k])[l]>>]])
        bits(r) == Flatten([k \in 1..Len(obj) |->
                    [l \in 1..Len(Levels(df, obj[k])) |->
                        IF df.data[r][obj[k]] = Levels(df, obj[k])[l]
                        THEN 1 ELSE 0]])
    IN [columns |-> rest.columns \o names,
        dtypes  |-> rest.dtypes \o [k \in 1..Len(names) |-> "uint8"],
        index   |-> df.index,
        data    |-> [r \in 1..NRows(df) |-> rest.data[r] \o bits(r)]]

ChurnTrue == <<"Churn?", "True.">>
ChurnFalse == <<"Churn?", "False.">>

\* pd.concat([df[c], rest], axis=1): column c of df first, then rest's columns
ConcatFirst(df, c, rest) ==
    [columns |-> <<c>> \o rest.columns,
     dtypes  |-> <<df.dtypes[ColumnPos(df, c)]>> \o rest.dtypes,
     index   |-> df.index,
     data    |-> [r \in 1..NRows(df) |->
                    <<df.data[r][ColumnPos(df, c)]>> \o rest.data[r]]]

\* a reordering that leaves the complement of the label among the features
LabelFirstKeepComplement(md) == ConcatFirst(md, ChurnTrue, DropColumns(md, {ChurnTrue}))

\* the reordering of the encoded frame: the label first, its complement dropped
LabelFirst(md) == ConcatFirst(md, ChurnTrue, DropColumns(md, {ChurnFalse, ChurnTrue}))

----------------------------------------------------------------------------
(* The split *)

\* the double nearest 0.7 is 6305039478318694 * 2^-53; its significand in
\* three limbs <<a, b, c>>: a * 2^36 + b * 2^18 + c
Double07 == <<91750, 104857, 157286>>

\* the double nearest 0.9 is 8106479329266893 * 2^-53
Double09 == <<117964, 209715, 52429>>

\* the largest power of two not above q (q >= 1)
HighBit(q) ==
    LET F[k \in 0..31] == IF 2 ^ (k + 1) > q THEN 2 ^ k ELSE F[k + 1]
    IN F[0]

\* a product truncated without the rounding to a double: floor(c * n)
IntOfExactProduct(mant, n) ==
    LET t0 == n * mant[3]
        t1 == n * mant[2] + (t0 \div (2 ^ 18))
        u  == n * mant[1] + (t1 \div (2 ^ 18))
    IN u \div (2 ^ 17)

\* int(c * n) as Python computes it, n < 2^13: the exact product c * n is
\* rounded to the nearest double (53 significant bits, ties to even) and
\* int() truncates.  With the product u * 2^36 + b1 * 2^18 + c1 and q its
\* integer part, the rounding reaches q + 1 exactly when the fraction is
\* within half a unit in the last place of 1.
IntOfFloatProduct(mant, n) ==
    LET t0 == n * mant[3]
        c1 == t0 % (2 ^ 18)
        t1 == n * mant[2] + (t0 \div (2 ^ 18))
        b1 == t1 % (2 ^ 18)
        u  == n * mant[1] + (t1 \div (2 ^ 18))
        q  == u \div (2 ^ 17)
        roundsUp == /\ q >= 1
                    /\ u % (2 ^ 17) = (2 ^ 17) - 1
                    /\ b1 = (2 ^ 18) - 1
                    /\ (2 ^ 18) - c1 <= HighBit(q)
    IN IF roundsUp THEN q + 1 ELSE q

\* the outputs of the Mersenne Twister (MT19937) seeded with 1729, in the
\* order it produces them, each reduced to its low 8 bits: all that a draw
\* below 256 uses
Stream1729 ==
    <<
       141, 102, 243,  37,  21, 126,  67, 141,  89,  59,  35, 193,  91, 164, 233, 201,
       111,  93,  83, 171, 214,  44, 147,  51, 204, 112, 123, 140, 154, 125,  43,   0,
       233,  42, 181, 158,  65,   3, 193,  37, 114, 196,  64, 215, 219, 132,  70, 247,
        10, 178,  40,  34, 160, 103,  13, 233,   7, 228, 221, 207,  16, 226, 129,  35,
        12, 140, 220,  33, 251, 170, 167,  51, 201, 154, 115, 115, 103, 181, 194,  89,
       109,  38, 136, 169, 129, 111,  80, 192, 237,  47, 215,  14, 112,  41, 229, 108,
       141,  93,  45, 186,  91, 172,  95, 104,   6,  12,  79,  77, 114, 124, 208,  93,
        58, 187,  62,  47, 234,  14, 198,  21,  59, 112, 118,  20,  39, 148, 246,  45,
        53, 191,  52,  75, 228,  40, 184, 132,  25, 153, 230, 245,  53, 211,   4,  10,
         0,  20, 174,  91, 230,  31,  69,  62, 243,  85,  12, 110, 207,  88, 187, 191,
       246, 102, 150, 112, 160, 133, 176, 163,  18, 101, 237,  84, 130,  62,   8
    >>

\* the mask of rk_interval: the smallest 2^k - 1 that is at least max
MaskOf(max) ==
    LET F[k \in 0..8] == IF 2 ^ k - 1 >= max THEN 2 ^ k - 1 ELSE F[k + 1]
    IN F[0]

\* rk_interval(max) with the generator at position p of its output: outputs
\* are masked and rejected until one is at most max.  The value drawn and the
\* generator's next position.
RkInterval(max, p) ==
    LET m == MaskOf(max) + 1
        F[q \in p..Len(Stream1729)] ==
            IF Stream1729[q] % m <= max
            THEN [value |-> Stream1729[q] % m, next |-> q + 1]
            ELSE F[q + 1]
    IN F[p]

\* one step of the shuffle: x[i] and x[j] swapped, j drawn from 0..i (the
\* array's 0-based positions are held at 1..n)
ShuffleStep(g, i) ==
    LET d == RkInterval(i, g.next)
    IN [x |-> [g.x EXCEPT ![i + 1] = g.x[d.value + 1],
                          ![d.value + 1] = g.x[i + 1]],
        next |-> d.next]

\* the steps of the shuffle are evaluated in runs of this many
ShuffleRun == 10

\* np.random.RandomState(1729).permutation(n): arange(n) shuffled by a fresh
\* generator, for i = n-1 down to 1 swapping x[i] with x[j].  B[b] is the
\* array and the generator's position after b runs of steps.
Permutation1729(n) ==
    LET Steps(start, b) ==
            LET H[k \in 0..ShuffleRun] ==
                    IF k = 0 THEN start
                    ELSE IF n - ((b - 1) * ShuffleRun + k) < 1 THEN H[k - 1]
                    ELSE ShuffleStep(H[k - 1], n - ((b - 1) * ShuffleRun + k))
            IN H[ShuffleRun]
        B[b \in 0..(n \div ShuffleRun + 1)] ==
            IF b = 0 THEN [x |-> [e \in 1..n |-> e - 1], next |-> 1]
            ELSE LET start == B[b - 1]
                 IN IF start.next >= 1 THEN Steps(start, b) ELSE start
    IN B[n \div ShuffleRun + 1].x

\* a sample drawn with replacement (replace=True): positions may repeat
SampleWithReplacement(df) ==
    TakeRows(df, [i \in 1..NRows(df) |-> Permutation1729(NRows(df))[1]])

\* the first k elements of s moved to its end
Rotate(s, k) ==
    IF Len(s) = 0 THEN s
    ELSE [i \in 1..Len(s) |-> s[((i - 1 + k) % Len(s)) + 1]]

\* a sample drawn from the global generator (random_state=None), whose state
\* the earlier executions of the cell have advanced
SampleUnseeded(df) ==
    TakeRows(df, CHOOSE perm \in {Rotate(Permutation1729(NRows(df)), split_runs)} : TRUE)

\* df.sample(frac=1, random_state=1729): every row, in the shuffled order
Sample(df) == TakeRows(df, CHOOSE perm \in {Permutation1729(NRows(df))} : TRUE)

\* the two split points [int(0.7 * len), int(0.9 * len)]
SplitPoints(n) == <<IntOfFloatProduct(Double07, n), IntOfFloatProduct(Double09, n)>>

\* a split whose second part starts one row early
NpSplitOverlapping(df, points) ==
    << SliceRows(df, 0, points[1]),
       SliceRows(df, IF points[1] > 0 THEN points[1] - 1 ELSE 0, points[2]),
       SliceRows(df, points[2], NRows(df)) >>

\* np.split(df, [a, b]): the rows [0:a], [a:b] and [b:]
NpSplit(df, points) ==
    << SliceRows(df, 0, points[1]),
       SliceRows(df, points[1], points[2]),
       SliceRows(df, points[2], NRows(df)) >>

----------------------------------------------------------------------------
(* Thresholding and evaluation *)

\* the prediction scores the model represents: k / ScoreScale in [0, 1]
Scores == 0..ScoreScale

\* a rounding that sends a tie upwards (round half up)
RoundHalfUp(x) ==
    LET q == x \div ScoreScale
        r == x % ScoreScale
    IN IF 2 * r < ScoreScale THEN q ELSE q + 1

\* a threshold with the comparison inverted: 1 below the cutoff, 0 above
RoundInverted(x) ==
    LET q == x \div ScoreScale
        r == x % ScoreScale
    IN IF 2 * r < ScoreScale THEN q + 1 ELSE q

\* a rounding that sends every score below 1 to 0 (a truncation)
RoundDown(x) == x \div ScoreScale

\* np.round of the score x / ScoreScale: the nearest integer, a tie to the
\* even one
NpRound(x) ==
    LET q == x \div ScoreScale
        r == x % ScoreScale
    IN IF 2 * r < ScoreScale THEN q
       ELSE IF 2 * r > ScoreScale THEN q + 1
       ELSE IF q % 2 = 0 THEN q ELSE q + 1

\* the number of positions where y_true is a and y_pred is p
Count(y_true, y_pred, a, p) ==
    Cardinality({i \in 1..Len(y_true) : y_true[i] = a /\ y_pred[i] = p})

\* the labels metrics.confusion_matrix finds: the sorted distinct values of
\* y_true and y_pred together
UniqueLabels(y_true, y_pred) ==
    SelectSeq(<<0, 1>>, LAMBDA l : l \in Range(y_true) \cup Range(y_pred))

\* metrics.confusion_matrix(y_true, y_pred).ravel(): one entry per pair of
\* labels found, row (actual) by row, column (predicted) by column
ConfusionRavel(y_true, y_pred) ==
    LET labels == UniqueLabels(y_true, y_pred)
        n == Len(labels)
    IN [k \in 1..(n * n) |->
          Count(y_true, y_pred, labels[((k - 1) \div n) + 1], labels[((k - 1) % n) + 1])]

\* a ratio num / den as sklearn reports it: 0 when the denominator is 0
Ratio(num, den) == IF den = 0 THEN <<0, 1>> ELSE <<num, den>>

\* get_score(y_true, y_pred): the tuple (precision, recall, f1, accuracy,
\* tn, fp, fn, tp), or the exception the call raises
GetScore(y_true, y_pred) ==
    LET tp1 == Count(y_true, y_pred, 1, 1)
        fp1 == Count(y_true, y_pred, 0, 1)
        fn1 == Count(y_true, y_pred, 1, 0)
        agree == Cardinality({i \in 1..Len(y_true) : y_true[i] = y_pred[i]})
        cm == ConfusionRavel(y_true, y_pred)
    IN IF Len(cm) # 4
       THEN [raised |-> "ValueError", value |-> <<>>]
       ELSE [raised |-> "",
             value |-> << Ratio(tp1, tp1 + fp1), Ratio(tp1, tp1 + fn1),
                          Ratio(2 * tp1, 2 * tp1 + fp1 + fn1),
                          Ratio(agree, Len(y_true)),
                          cm[1], cm[2], cm[3], cm[4] >>]

\* the report the get-scores cell builds from get_score's tuple: the tuple is
\* unpacked as (..., tn, fp, fn, tp) and listed as [..., tp, fp, tn, fn] under
\* the index ['precision', 'recall', 'f1', 'accuracy', 'tp', 'fp', 'tn', 'fn']
ScoreReport(t) ==
    LET tn == t[5]
        fp == t[6]
        fn == t[7]
        tp == t[8]
    IN [precision |-> t[1], recall |-> t[2], f1 |-> t[3], accuracy |-> t[4],
        tp |-> tp, fp |-> fp, tn |-> tn, fn |-> fn]

NoReport ==
    [precision |-> <<0, 1>>, recall |-> <<0, 1>>, f1 |-> <<0, 1>>,
     accuracy |-> <<0, 1>>, tp |-> 0, fp |-> 0, tn |-> 0, fn |-> 0]

----------------------------------------------------------------------------
(* The kernel and the external services *)

NoError == [cell |-> "", exc |-> ""]

\* map with key k set to v
Put(map, k, v) == [x \in DOMAIN map \cup {k} |-> IF x = k THEN v ELSE map[x]]

\* an exception leaves the cell; the run stops there
Raise(cell, exc) ==
    /\ pc' = "halted"
    /\ error' = [cell |-> cell, exc |-> exc]

Terminal == {"Completed", "Failed", "Stopped"}

\* a wait that returns normally whatever the job's final status
WaitOutcomeNeverRaises(status) ==
    IF status \notin Terminal THEN "blocked" ELSE "returns"

\* a wait that does not block while the job is in progress
WaitOutcomeNeverBlocks(status) ==
    IF status = "Failed" THEN "raises" ELSE "returns"

\* the SDK's wait on a job (inside fit, and transformer.wait): it blocks
\* until the service reports a terminal status, then raises when the status
\* is Failed and returns otherwise (on Stopped it only logs a warning)
WaitOutcome(status) ==
    IF status \notin Terminal THEN "blocked"
    ELSE IF status = "Failed" THEN "raises" ELSE "returns"

\* strftime of the clock: one stamp per second
Strftime(t) == ToString(t)

\* name_from_base(base): the base name and the time stamp of the call
NameFromBase(base) == base \o "-" \o Strftime(now)

\* the key of the artifact a training job writes under the output path
ArtifactKey(job_name) == "output/" \o job_name \o "/output/model.tar.gz"

CustomisedModelKey == "DEMO-customised-xgboost-churn/model.tar.gz"

BatchInputKey == "batch/test_data_Batch.csv"

BatchOutputKey == "batch/batch-inference/test_data_Batch.csv.out"

Init ==
    /\ pc = "read_csv"
    /\ error = NoError
    /\ bound = {}
    /\ raw \in InputFiles
    /\ churn = EmptyFrame
    /\ model_data = EmptyFrame
    /\ train_data = EmptyFrame
    /\ validation_data = EmptyFrame
    /\ test_data = EmptyFrame
    /\ test_data_batch = EmptyFrame
    /\ files = <<>>
    /\ s3 = <<>>
    /\ artifacts = <<>>
    /\ training = <<>>
    /\ transforms = <<>>
    /\ batch_output = <<>>
    /\ pred_y = <<>>
    /\ test_y = <<>>
    /\ output = NoReport
    /\ now = 0
    /\ run = 1
    /\ split_runs = 0
    /\ transformJobName = ""
    /\ submitted = <<>>

dataVars == <<raw, churn, model_data, train_data, validation_data, test_data,
              test_data_batch>>
storeVars == <<files, s3, artifacts>>
jobVars == <<training, transforms>>
evalVars == <<batch_output, pred_y, test_y, output>>
sessionVars == <<run, split_runs, transformJobName, submitted>>

\* churn = pd.read_csv('./Data sets/churn.txt')
ReadChurn ==
    /\ pc = "read_csv"
    /\ churn' = raw
    /\ bound' = bound \cup {"churn"}
    /\ pc' = "drop_phone"
    /\ UNCHANGED <<error, raw, model_data, train_data, validation_data, test_data,
                   test_data_batch, storeVars, jobVars, evalVars, now, sessionVars>>

\* churn = churn.drop('Phone', axis=1); churn['Area Code'] = ....astype(object)
DropPhone ==
    /\ pc = "drop_phone"
    /\ churn' = AsType(DropColumns(churn, {<<"Phone">>}), <<"Area Code">>, "object")
    /\ pc' = "drop_duplicates"
    /\ UNCHANGED <<error, bound, raw, model_data, train_data, validation_data,
                   test_data, test_data_batch, storeVars, jobVars, evalVars, now, sessionVars>>

\* churn = churn.drop_duplicates()
DropDuplicateRows ==
    /\ pc = "drop_duplicates"
    /\ churn' = DropDuplicates(churn)
    /\ pc' = "drop_charges"
    /\ UNCHANGED <<error, bound, raw, model_data, train_data, validation_data,
                   test_data, test_data_batch, storeVars, jobVars, evalVars, now, sessionVars>>

\* the other column of each pair
MinsColumns == {<<"Day Mins">>, <<"Eve Mins">>, <<"Night Mins">>, <<"Intl Mins">>}

ChargeColumns == {<<"Day Charge">>, <<"Eve Charge">>, <<"Night Charge">>, <<"Intl Charge">>}

\* churn = churn.drop(['Day Charge', 'Eve Charge', 'Night Charge', 'Intl Charge'], axis=1)
DropCharges ==
    /\ pc = "drop_charges"
    /\ churn' = DropColumns(churn, ChargeColumns)
    /\ pc' = "get_dummies"
    /\ UNCHANGED <<error, bound, raw, model_data, train_data, validation_data,
                   test_data, test_data_batch, storeVars, jobVars, evalVars, now, sessionVars>>

\* model_data = pd.get_dummies(churn), then the label column moved first;
\* a KeyError when the data has no row of one of the two classes
Encode ==
    /\ pc = "get_dummies"
    /\ LET md == GetDummies(churn)
       IN IF HasColumn(md, ChurnTrue) /\ HasColumn(md, ChurnFalse)
          THEN /\ model_data' = LabelFirst(md)
               /\ pc' = "split"
               /\ error' = error
          ELSE /\ model_data' = md
               /\ Raise("get_dummies", "KeyError")
    /\ bound' = bound \cup {"model_data"}
    /\ UNCHANGED <<raw, churn, train_data, validation_data, test_data,
                   test_data_batch, storeVars, jobVars, evalVars, now, sessionVars>>

\* train_data, validation_data, test_data = np.split(model_data.sample(...), [...])
\* and the two to_csv calls
Split ==
    /\ pc = "split"
    /\ \E shuffled \in {Sample(model_data)} :
          \E parts \in {NpSplit(shuffled, SplitPoints(NRows(model_data)))} :
             /\ train_data' = parts[1]
             /\ validation_data' = parts[2]
             /\ test_data' = parts[3]
             /\ files' = Put(Put(files, "train.csv", ToCsv(parts[1])),
                             "validation.csv", ToCsv(parts[2]))
    /\ bound' = bound \cup {"train_data", "validation_data", "test_data"}
    /\ split_runs' = split_runs + 1
    /\ pc' = "upload_data"
    /\ UNCHANGED <<error, raw, churn, model_data, test_data_batch, s3, artifacts,
                   jobVars, evalVars, now, run, transformJobName, submitted>>

\* the split cell executed once more, before the cells after it
SplitAgain ==
    /\ pc = "upload_data"
    /\ split_runs < MaxSplits
    /\ \E shuffled \in {Sample(model_data)} :
          \E parts \in {NpSplit(shuffled, SplitPoints(NRows(model_data)))} :
             /\ train_data' = parts[1]
             /\ validation_data' = parts[2]
             /\ test_data' = parts[3]
             /\ files' = Put(Put(files, "train.csv", ToCsv(parts[1])),
                             "validation.csv", ToCsv(parts[2]))
    /\ bound' = bound \cup {"train_data", "validation_data", "test_data"}
    /\ split_runs' = split_runs + 1
    /\ UNCHANGED <<pc, error, raw, churn, model_data, test_data_batch, s3, artifacts,
                   jobVars, evalVars, now, run, transformJobName, submitted>>

\* the two upload_file calls
UploadData ==
    /\ pc = "upload_data"
    /\ s3' = Put(Put(s3, "train/train.csv", files["train.csv"]),
                 "validation/validation.csv", files["validation.csv"])
    /\ pc' = "fit_builtin"
    /\ UNCHANGED <<error, bound, dataVars, files, artifacts, jobVars, evalVars, now, sessionVars>>

\* a training job as the estimator submits it
TrainingJob(estimator, base, model_uri) ==
    [estimator |-> estimator, name |-> NameFromBase(base), status |-> "InProgress",
     train |-> s3["train/train.csv"], validation |-> s3["validation/validation.csv"],
     model_uri |-> model_uri]

\* estimator.fit(...), first half: the training job is created
SubmitFit(cell, estimator, base, model_uri) ==
    /\ pc = cell
    /\ training' = Append(training, TrainingJob(estimator, base, model_uri))
    /\ bound' = bound \cup {estimator}
    /\ pc' = cell \o "_wait"
    /\ UNCHANGED <<error, dataVars, storeVars, transforms, evalVars, now, sessionVars>>

\* estimator.fit(...), second half: the call blocks until the job is over,
\* then returns or raises
ReturnFit(cell, next) ==
    /\ pc = cell \o "_wait"
    /\ WaitOutcome(training[Len(training)].status) # "blocked"
    /\ IF WaitOutcome(training[Len(training)].status) = "returns"
       THEN pc' = next /\ error' = error
       ELSE Raise(cell, "JobFailed")
    /\ UNCHANGED <<bound, dataVars, storeVars, jobVars, evalVars, now, sessionVars>>

\* xgb.fit({'train': ..., 'validation': ...})
FitBuiltin == SubmitFit("fit_builtin", "xgb", "DEMO-xgboost-churn", "")

FitBuiltinReturns == ReturnFit("fit_builtin", "fit_local")

\* the local model: features and target split off, XGBClassifier.fit,
\* save_model and tar into model.tar.gz (the archive records when the model
\* file was written)
TrainLocalModel ==
    /\ pc = "fit_local"
    /\ files' = Put(files, "model.tar.gz",
                    [trained_on |-> train_data.data, eval_set |-> validation_data.data,
                     saved_at |-> now])
    /\ bound' = bound \cup {"train_X", "train_y", "valid_X", "valid_y", "customised_xgb"}
    /\ pc' = "upload_model"
    /\ UNCHANGED <<error, dataVars, s3, artifacts, jobVars, evalVars, now, sessionVars>>

\* upload_fileobj of model.tar.gz to the customised model's key
UploadModel ==
    /\ pc = "upload_model"
    /\ artifacts' = Put(artifacts, CustomisedModelKey, files["model.tar.gz"])
    /\ pc' = "fit_customised"
    /\ UNCHANGED <<error, bound, dataVars, files, s3, jobVars, evalVars, now, sessionVars>>

\* customised_xgb.fit({'train': ..., 'validation': ...}, logs=True)
FitCustomised ==
    SubmitFit("fit_customised", "customised_xgb", "DEMO-customised-xgboost-churn",
              CustomisedModelKey)

FitCustomisedReturns == ReturnFit("fit_customised", "batch_input")

\* the training service ends a job that is in progress; the job has taken
\* time
TrainingEnds(status) ==
    /\ Len(training) > 0
    /\ training[Len(training)].status = "InProgress"
    /\ training' = [training EXCEPT ![Len(training)].status = status]
    /\ artifacts' = IF status = "Completed"
                    THEN Put(artifacts, ArtifactKey(training[Len(training)].name),
                             [trained_on |-> training[Len(training)].train,
                              eval_set |-> training[Len(training)].validation,
                              saved_at |-> now + 1])
                    ELSE artifacts
    /\ now' = now + 1
    /\ UNCHANGED <<pc, error, bound, dataVars, files, s3, transforms, evalVars,
                   sessionVars>>

TrainingCompletes == TrainingEnds("Completed")

TrainingFails == TrainingEnds("Failed")

TrainingStopped == TrainingEnds("Stopped")

\* test_data_batch = test_data.iloc[:, 1:], written without header and index
\* and uploaded
PrepareBatchInput ==
    /\ pc = "batch_input"
    /\ test_data_batch' = ILocColumnsFrom(test_data, 1)
    /\ files' = Put(files, "test_data_Batch.csv", ToCsv(ILocColumnsFrom(test_data, 1)))
    /\ s3' = Put(s3, BatchInputKey, ToCsv(ILocColumnsFrom(test_data, 1)))
    /\ bound' = bound \cup {"test_data_batch"}
    /\ pc' = "transform"
    /\ UNCHANGED <<error, raw, churn, model_data, train_data, validation_data,
                   test_data, artifacts, jobVars, evalVars, now, sessionVars>>

\* the training job an estimator name is attached to: its latest one
LatestJobOf(estimator) ==
    LET mine == {i \in 1..Len(training) : training[i].estimator = estimator}
    IN training[CHOOSE i \in mine : \A j \in mine : j <= i]

\* transformer = xgb.transformer(...); transformer.transform(data=s3_batch_input, ...):
\* the transform job is created on the model of xgb's training job
SubmitTransform ==
    /\ pc = "transform"
    /\ transforms' = Append(transforms,
                        [name |-> NameFromBase("DEMO-xgboost-churn"),
                         model |-> ArtifactKey(LatestJobOf("xgb").name),
                         trained |-> LatestJobOf("xgb").status,
                         input |-> BatchInputKey, output |-> BatchOutputKey,
                         status |-> "InProgress"])
    /\ bound' = bound \cup {"transformer"}
    /\ pc' = "transform_wait"
    /\ UNCHANGED <<error, dataVars, storeVars, training, evalVars, now, sessionVars>>

\* the batch service completes a job, which takes the model's artifact: one
\* score per line of the input, written to the job's output; the job has
\* taken time
TransformCompletes ==
    /\ \E i \in 1..Len(transforms) :
          /\ transforms[i].status = "InProgress"
          /\ transforms[i].model \in DOMAIN artifacts
          /\ transforms[i].input \in DOMAIN s3
          /\ \E scores \in [1..Len(s3[transforms[i].input]) -> Scores] :
                s3' = Put(s3, transforms[i].output, scores)
          /\ transforms' = [transforms EXCEPT ![i].status = "Completed"]
    /\ now' = now + 1
    /\ UNCHANGED <<pc, error, bound, dataVars, files, artifacts, training, evalVars,
                   sessionVars>>

\* the batch service ends a job without output
TransformEnds(status) ==
    /\ \E i \in 1..Len(transforms) :
          /\ transforms[i].status = "InProgress"
          /\ transforms' = [transforms EXCEPT ![i].status = status]
    /\ now' = now + 1
    /\ UNCHANGED <<pc, error, bound, dataVars, storeVars, training, evalVars,
                   sessionVars>>

TransformFails == TransformEnds("Failed")

TransformStopped == TransformEnds("Stopped")

\* transformer.wait(): blocks until the job is over, then returns or raises
TransformWaitReturns ==
    /\ pc = "transform_wait"
    /\ WaitOutcome(transforms[Len(transforms)].status) # "blocked"
    /\ IF WaitOutcome(transforms[Len(transforms)].status) = "returns"
       THEN pc' = "read_output" /\ error' = error
       ELSE Raise("transform", "JobFailed")
    /\ UNCHANGED <<bound, dataVars, storeVars, jobVars, evalVars, now, sessionVars>>

\* batch_output = pd.read_csv(<the output object>, header=None)
ReadBatchOutput ==
    /\ pc = "read_output"
    /\ IF BatchOutputKey \in DOMAIN s3
       THEN /\ batch_output' = s3[BatchOutputKey]
            /\ bound' = bound \cup {"batch_output"}
            /\ pc' = "threshold"
            /\ error' = error
       ELSE /\ Raise("read_output", "FileNotFoundError")
            /\ UNCHANGED <<batch_output, bound>>
    /\ UNCHANGED <<dataVars, storeVars, jobVars, pred_y, test_y, output, now, sessionVars>>

\* pred_y = np.round(batch_output)
Threshold ==
    /\ pc = "threshold"
    /\ pred_y' = [i \in 1..Len(batch_output) |-> NpRound(batch_output[i])]
    /\ bound' = bound \cup {"pred_y"}
    /\ pc' = "get_scores"
    /\ UNCHANGED <<error, dataVars, storeVars, jobVars, batch_output, test_y, output, now, sessionVars>>

\* ... = get_score(test_y, pred_y); output = pd.Series([...], index=[...])
GetScores ==
    /\ pc = "get_scores"
    /\ IF "test_y" \notin bound
       THEN /\ Raise("get_scores", "NameError")
            /\ UNCHANGED <<output, bound>>
       ELSE IF GetScore(test_y, pred_y).raised # ""
       THEN /\ Raise("get_scores", GetScore(test_y, pred_y).raised)
            /\ UNCHANGED <<output, bound>>
       ELSE /\ output' = ScoreReport(GetScore(test_y, pred_y).value)
            /\ bound' = bound \cup {"output"}
            /\ pc' = "done"
            /\ error' = error
    /\ UNCHANGED <<dataVars, storeVars, jobVars, batch_output, pred_y, test_y, now, sessionVars>>

Next ==
    \/ ReadChurn
    \/ DropPhone
    \/ DropDuplicateRows
    \/ DropCharges
    \/ Encode
    \/ Split
    \/ UploadData
    \/ FitBuiltin
    \/ FitBuiltinReturns
    \/ TrainLocalModel
    \/ UploadModel
    \/ FitCustomised
    \/ FitCustomisedReturns
    \/ TrainingCompletes
    \/ TrainingFails
    \/ TrainingStopped
    \/ PrepareBatchInput
    \/ SubmitTransform
    \/ TransformCompletes
    \/ TransformFails
    \/ TransformStopped
    \/ TransformWaitReturns
    \/ ReadBatchOutput
    \/ Threshold
    \/ GetScores

\* the notebook run from its first cell on an input file
Spec == Init /\ [][Next]_vars

----------------------------------------------------------------------------
(* The evaluation cells on their own: any scores file, any actual labels *)

InitEval ==
    /\ pc = "threshold"
    /\ error = NoError
    /\ bound = {"batch_output", "test_y"}
    /\ raw = EmptyFrame
    /\ churn = EmptyFrame
    /\ model_data = EmptyFrame
    /\ train_data = EmptyFrame
    /\ validation_data = EmptyFrame
    /\ test_data = EmptyFrame
    /\ test_data_batch = EmptyFrame
    /\ files = <<>>
    /\ s3 = <<>>
    /\ artifacts = <<>>
    /\ training = <<>>
    /\ transforms = <<>>
    /\ \E n \in 0..MaxLabels :
          /\ batch_output \in [1..n -> Scores]
          /\ test_y \in [1..n -> {0, 1}]
    /\ pred_y = <<>>
    /\ output = NoReport
    /\ now = 0
    /\ run = 1
    /\ split_runs = 0
    /\ transformJobName = ""
    /\ submitted = <<>>

NextEval ==
    \/ Threshold
    \/ GetScores

SpecEval == InitEval /\ [][NextEval]_vars

----------------------------------------------------------------------------
(* The split cell on its own, on encoded tables of up to MaxTableRows rows *)

\* the cells between read_csv and get_dummies, applied to the parsed file
PrepareChurn(file) ==
    LET named == CHOOSE df \in {AsType(DropColumns(file, {<<"Phone">>}),
                                       <<"Area Code">>, "object")} : TRUE
        distinct == CHOOSE df \in {DropDuplicates(named)} : TRUE
    IN DropColumns(distinct, ChargeColumns)

\* customer i of a file of distinct customers: the profiles in turn, each
\* with minutes of its own
Customer(i) == [Profiles[((i - 1) % Len(Profiles)) + 1] EXCEPT !.daymins = 100 + i]

\* the parsed file of the first n of these customers
CustomerFile(n) == ReadCsv([i \in 1..n |-> Customer(i)])

\* the kernel before the split cell, the cells above it run on a file of n
\* customers
InitSplit ==
    /\ pc = "split"
    /\ error = NoError
    /\ bound = {"churn", "model_data"}
    /\ \E n \in 2..MaxTableRows :
          \E file \in {CustomerFile(n)} :
             \E prepared \in {PrepareChurn(file)} :
                /\ raw = file
                /\ churn = prepared
                /\ model_data = LabelFirst(GetDummies(prepared))
    /\ train_data = EmptyFrame
    /\ validation_data = EmptyFrame
    /\ test_data = EmptyFrame
    /\ test_data_batch = EmptyFrame
    /\ files = <<>>
    /\ s3 = <<>>
    /\ artifacts = <<>>
    /\ training = <<>>
    /\ transforms = <<>>
    /\ batch_output = <<>>
    /\ pred_y = <<>>
    /\ test_y = <<>>
    /\ output = NoReport
    /\ now = 0
    /\ run = 1
    /\ split_runs = 0
    /\ transformJobName = ""
    /\ submitted = <<>>

NextSplit ==
    \/ Split
    \/ SplitAgain

SpecSplit == InitSplit /\ [][NextSplit]_vars

----------------------------------------------------------------------------
(* A session: the notebook run again from its first cell (restart and run
   all), the bucket and the services keeping what the earlier runs left *)

\* the files a run of the session reads: two customers each
SessionFiles == {ReadCsv(<<Profiles[1], Profiles[p]>>) : p \in 1..Len(Profiles)}

\* the kernel is restarted and the notebook run again; the input file may
\* have changed.  Local files, the bucket and the jobs stay.
RestartAndRunAll ==
    /\ pc \in {"done", "halted"}
    /\ run < MaxRuns
    /\ run' = run + 1
    /\ raw' \in SessionFiles
    /\ pc' = "read_csv"
    /\ error' = NoError
    /\ bound' = {}
    /\ churn' = EmptyFrame
    /\ model_data' = EmptyFrame
    /\ train_data' = EmptyFrame
    /\ validation_data' = EmptyFrame
    /\ test_data' = EmptyFrame
    /\ test_data_batch' = EmptyFrame
    /\ batch_output' = <<>>
    /\ pred_y' = <<>>
    /\ test_y' = <<>>
    /\ output' = NoReport
    /\ split_runs' = 0
    /\ transformJobName' = ""
    /\ UNCHANGED <<storeVars, jobVars, now, submitted>>

\* the first run of a session, on one of its files
InitSession == Init /\ raw \in SessionFiles

NextSession ==
    \/ Next
    \/ RestartAndRunAll

SpecSession == InitSession /\ [][NextSession]_vars

----------------------------------------------------------------------------
(* The run under fair scheduling: the kernel runs the next cell, and the
   services report an end for every job they were given *)

SpecLive == InitSession /\ [][Next]_vars /\ WF_vars(Next)

----------------------------------------------------------------------------
(* The extension: the cells that call an existing model, run by hand *)

\* the model named in Modelname: one that exists
ExistingModel == ArtifactKey("DEMO-xgboost-churn-0")

\* the object a transform job writes for the input under S3OutputPath
ExtensionOutputKey == BatchOutputKey \o "/test_data_Batch.csv.out"

\* batch_input, batch_output, Modelname and transformJobName are assigned:
\* the job name is the fixed prefix and strftime("%Y-%m-%d-%H-%M-%S", gmtime())
NameTransformJob ==
    /\ pc = "name_job"
    /\ transformJobName' = "DEMO-xgboost-churn-call-batch" \o Strftime(now)
    /\ batch_output' = BatchOutputKey
    /\ bound' = bound \cup {"batch_input", "batch_output", "Modelname",
                            "transformJobName"}
    /\ error' = NoError
    /\ pc' = "create_job"
    /\ UNCHANGED <<dataVars, storeVars, jobVars, pred_y, test_y, output, now,
                   run, split_runs, submitted>>

\* create_batch = client.create_transform_job(TransformJobName=transformJobName, ...):
\* the service refuses a name that a transform job already has (the call
\* raises ClientError), otherwise it creates the job and the call returns.
\* The cells can then be run again for another job.
CreateTransformJob ==
    /\ pc = "create_job"
    /\ Len(submitted) < MaxSubmissions
    /\ submitted' = Append(submitted, transformJobName)
    /\ IF \E i \in 1..Len(transforms) : transforms[i].name = transformJobName
       THEN /\ error' = [cell |-> "create_job", exc |-> "ClientError"]
            /\ UNCHANGED <<transforms, bound>>
       ELSE /\ transforms' = Append(transforms,
                                [name |-> transformJobName,
                                 model |-> ExistingModel,
                                 trained |-> "Completed",
                                 input |-> BatchInputKey,
                                 output |-> ExtensionOutputKey,
                                 status |-> "InProgress"])
            /\ bound' = bound \cup {"create_batch"}
            /\ error' = NoError
    /\ pc' = "name_job"
    /\ UNCHANGED <<dataVars, storeVars, training, evalVars, now, run, split_runs,
                   transformJobName>>

\* a second passes
Tick ==
    /\ now < MaxTime
    /\ now' = now + 1
    /\ UNCHANGED <<pc, error, bound, dataVars, storeVars, jobVars, evalVars,
                   sessionVars>>

\* the batch input the extension reuses: what a run of the notebook on the
\* file uploads, the features of its test partition
BatchInputOf(file) ==
    LET md == LabelFirst(GetDummies(PrepareChurn(file)))
    IN ToCsv(ILocColumnsFrom(NpSplit(Sample(md), SplitPoints(NRows(md)))[3], 1))

\* a kernel where the setup cells ran; the bucket holds a batch input and
\* the existing model
InitExtension ==
    /\ pc = "name_job"
    /\ error = NoError
    /\ bound = {}
    /\ raw = EmptyFrame
    /\ churn = EmptyFrame
    /\ model_data = EmptyFrame
    /\ train_data = EmptyFrame
    /\ validation_data = EmptyFrame
    /\ test_data = EmptyFrame
    /\ test_data_batch = EmptyFrame
    /\ files = <<>>
    /\ \E p \in {2, 3} :
          s3 = [k \in {BatchInputKey} |->
                   BatchInputOf(ReadCsv(<<Profiles[1], Profiles[p]>>))]
    /\ artifacts = [k \in {ExistingModel} |->
                       [trained_on |-> <<>>, eval_set |-> <<>>, saved_at |-> 0]]
    /\ training = <<>>
    /\ transforms = <<>>
    /\ batch_output = <<>>
    /\ pred_y = <<>>
    /\ test_y = <<>>
    /\ output = NoReport
    /\ now = 0
    /\ run = 1
    /\ split_runs = 0
    /\ transformJobName = ""
    /\ submitted = <<>>

NextExtension ==
    \/ NameTransformJob
    \/ CreateTransformJob
    \/ Tick
    \/ TransformCompletes
    \/ TransformFails
    \/ TransformStopped

SpecExtension == InitExtension /\ [][NextExtension]_vars

----------------------------------------------------------------------------
(* Properties *)

\* the cells after a given cell has completed
AfterSplit == "train_data" \in bound

PhonePos == IndexOf(RawColumns, <<"Phone">>)

\* line i (0-based) of the input with its Phone field removed
InputRow(i) == DropPositions(raw.data[i + 1], {PhonePos})

\* the row of churn with label l
ChurnRow(l) == churn.data[IndexOf(churn.index, l)]

\* the value of column c in the row of churn with label l
ChurnValue(l, c) == ChurnRow(l)[ColumnPos(churn, c)]

\* the label of the customer with row label l: 1 when Churn? is True.
LabelOf(l) == IF ChurnValue(l, <<"Churn?">>) = "True." THEN 1 ELSE 0

\* C1: after the split step the train, validation and test partitions are
\* pairwise disjoint (no input row appears in two partitions) and their sizes
\* sum to the number of rows of the table that was split.
C1_SplitDisjointAndComplete ==
    AfterSplit =>
        /\ Range(train_data.index) \cap Range(validation_data.index) = {}
        /\ Range(train_data.index) \cap Range(test_data.index) = {}
        /\ Range(validation_data.index) \cap Range(test_data.index) = {}
        /\ NRows(train_data) + NRows(validation_data) + NRows(test_data)
              = NRows(model_data)

\* a split with three non-empty partitions has been made
C1_Witness ==
    /\ AfterSplit
    /\ NRows(train_data) >= 2
    /\ NRows(validation_data) >= 1
    /\ NRows(test_data) >= 1

\* C2: the files written for training and validation carry the label of
\* every row (as their first field, with every column of the encoded table),
\* and the file submitted for batch scoring has no label column and keeps
\* every feature column of the test partition in the order of the training
\* features.
C2_LabelInTrainingNotInBatch ==
    /\ AfterSplit =>
          /\ train_data.columns[1] = ChurnTrue
          /\ Len(files["train.csv"]) = NRows(train_data)
          /\ Len(files["validation.csv"]) = NRows(validation_data)
          /\ \A r \in 1..NRows(train_data) :
                /\ Len(files["train.csv"][r]) = Len(model_data.columns)
                /\ files["train.csv"][r][1] = LabelOf(train_data.index[r])
          /\ \A r \in 1..NRows(validation_data) :
                /\ Len(files["validation.csv"][r]) = Len(model_data.columns)
                /\ files["validation.csv"][r][1] = LabelOf(validation_data.index[r])
    /\ BatchInputKey \in DOMAIN s3 =>
          /\ ~ HasColumn(test_data_batch, ChurnTrue)
          /\ ~ HasColumn(test_data_batch, ChurnFalse)
          /\ test_data_batch.columns = Tail(train_data.columns)
          /\ Len(s3[BatchInputKey]) = NRows(test_data)
          /\ \A r \in 1..NRows(test_data) :
                s3[BatchInputKey][r] = Tail(test_data.data[r])

\* the batch input has been uploaded for a test partition that holds a
\* churner, next to a non-empty training file
C2_Witness ==
    /\ BatchInputKey \in DOMAIN s3
    /\ NRows(train_data) >= 1
    /\ \E r \in 1..NRows(test_data) : test_data.data[r][1] = 1

\* the kernel has gone past transformer.wait()
PastTransformWait ==
    \/ pc \in {"read_output", "threshold", "get_scores", "done"}
    \/ error.cell \in {"read_output", "get_scores"}
    \/ "batch_output" \in bound

\* C3: the step that reads the prediction output happens only after the
\* service has reported a terminal state for the submitted job, never while
\* the job is in progress.
C3_ReadOnlyAfterTerminal ==
    PastTransformWait =>
        /\ Len(transforms) >= 1
        /\ transforms[Len(transforms)].status \in Terminal
        /\ transforms[Len(transforms)].status # "InProgress"

\* the output of a finished job has been read
C3_Witness ==
    /\ "batch_output" \in bound
    /\ Len(batch_output) >= 1
    /\ transforms[Len(transforms)].status = "Completed"

\* C4: duplicate-row removal is idempotent: applied to the table it produced
\* it yields the same table, rows and row count.
C4_DropDuplicatesIdempotent ==
    pc = "drop_charges" =>
        /\ DropDuplicates(churn) = churn
        /\ NRows(DropDuplicates(churn)) = NRows(churn)

\* the step removed duplicated rows from a table that had some
C4_Witness ==
    /\ pc = "drop_charges"
    /\ NRows(raw) - NRows(churn) >= 2

\* C5: duplicate-row removal keeps, for each distinct row value, exactly its
\* first occurrence, in the original relative order: the output is a
\* subsequence of the input with no two equal rows and the same distinct rows.
C5_DropDuplicatesKeepsFirst ==
    pc = "drop_charges" =>
        /\ \A k \in 1..NRows(churn) :
              /\ churn.index[k] \in 0..(NRows(raw) - 1)
              /\ churn.data[k] = InputRow(churn.index[k])
              /\ \A j \in 0..(churn.index[k] - 1) : InputRow(j) # churn.data[k]
        /\ \A k, l \in 1..NRows(churn) :
              k < l => /\ churn.index[k] < churn.index[l]
                       /\ churn.data[k] # churn.data[l]
        /\ \A i \in 0..(NRows(raw) - 1) :
              \E k \in 1..NRows(churn) : churn.data[k] = InputRow(i)

\* a row that was kept has a duplicate after a different row of the input
C5_Witness ==
    /\ pc = "drop_charges"
    /\ NRows(churn) >= 2
    /\ \E i, j, k \in 0..(NRows(raw) - 1) :
          /\ i < j /\ j < k
          /\ InputRow(i) = InputRow(k)
          /\ InputRow(i) # InputRow(j)

\* the encoded table is in place: the get-dummies cell completed
Encoded == "model_data" \in bound /\ error.cell # "get_dummies"

\* the positions of the indicator columns of field c in the encoded table
IndicatorPositions(c) ==
    {i \in 1..Len(model_data.columns) :
        Len(model_data.columns[i]) = 2 /\ model_data.columns[i][1] = c}

\* the number of indicator columns of field c that are 1 in row r
IndicatorSum(r, c) ==
    Cardinality({i \in IndicatorPositions(c) : model_data.data[r][i] = 1})

\* the categorical fields get_dummies encodes: the four features, the label
CategoricalFeatures == {"State", "Area Code", "Int'l Plan", "VMail Plan"}

CategoricalFields == CategoricalFeatures \cup {"Churn?"}

\* C6 as stated: in the encoded table, for every row and every categorical
\* field, the field's indicator columns are mutually exclusive and sum to
\* exactly 1.
C6_Original_OneHotSumsToOne ==
    Encoded =>
        \A r \in 1..NRows(model_data) : \A c \in CategoricalFields :
            IndicatorSum(r, c) = 1

\* C6 amended: in the encoded table, for every row and every categorical
\* feature field (State, Area Code, Int'l Plan, VMail Plan), the field's
\* indicator columns are 0 or 1, at most one of them is 1, and exactly one is
\* 1 when the row's value of the field is not missing (none when it is
\* missing).  The label field Churn? is not one-hot there: only its
\* Churn?_True. column is kept, so its columns sum to 1 for a churner and to
\* 0 for every other row.
C6_OneHotFeaturesExclusive ==
    Encoded =>
        /\ \A r \in 1..NRows(model_data) : \A c \in CategoricalFeatures :
              /\ \A i \in IndicatorPositions(c) : model_data.data[r][i] \in {0, 1}
              /\ IndicatorSum(r, c) <= 1
              /\ IndicatorSum(r, c) = 1
                    <=> ChurnValue(model_data.index[r], <<c>>) # NaN
        /\ {model_data.columns[i] : i \in IndicatorPositions("Churn?")} = {ChurnTrue}
        /\ \A r \in 1..NRows(model_data) :
              IndicatorSum(r, "Churn?") = LabelOf(model_data.index[r])

\* an encoded table where a field has two indicator columns, one row has a
\* missing value and one row is no churner
C6_Witness ==
    /\ Encoded
    /\ Cardinality(IndicatorPositions("State")) = 2
    /\ Cardinality(IndicatorPositions("VMail Plan")) = 2
    /\ \E r \in 1..NRows(model_data) : IndicatorSum(r, "VMail Plan") = 0
    /\ \E r \in 1..NRows(model_data) : IndicatorSum(r, "Churn?") = 0

\* the thresholding cell has run
Thresholded == "pred_y" \in bound

\* C7: thresholding is monotonic: for two scores s1 <= s2, if the label of
\* s1 is 1 then the label of s2 is 1.
C7_ThresholdMonotonic ==
    Thresholded =>
        \A i, j \in 1..Len(batch_output) :
            (batch_output[i] <= batch_output[j] /\ pred_y[i] = 1) => pred_y[j] = 1

\* two different scores, the lower one labelled 1, next to a score labelled 0
C7_Witness ==
    /\ Thresholded
    /\ \E i, j, k \in 1..Len(batch_output) :
          /\ batch_output[i] < batch_output[j]
          /\ pred_y[i] = 1
          /\ pred_y[k] = 0

\* C8: the threshold is a fixed cutoff of 0.5: every score in [0, 1] gets a
\* label in {0, 1}, every score above 0.5 the label 1 and every score below
\* 0.5 the label 0, in every state of the pipeline once the labels exist.
C8_FixedCutoff ==
    Thresholded =>
        /\ Len(pred_y) = Len(batch_output)
        /\ \A i \in 1..Len(batch_output) :
              /\ pred_y[i] \in {0, 1}
              /\ 2 * batch_output[i] > ScoreScale => pred_y[i] = 1
              /\ 2 * batch_output[i] < ScoreScale => pred_y[i] = 0

\* the pipeline has labelled a score strictly between 0.5 and 1
C8_Witness ==
    /\ Thresholded
    /\ Len(training) = 2
    /\ \E i \in 1..Len(batch_output) :
          /\ 2 * batch_output[i] > ScoreScale
          /\ batch_output[i] < ScoreScale
          /\ pred_y[i] = 1

\* the get-scores cell has run to its end or to an exception
ScoresCellRan == pc = "done" \/ error.cell = "get_scores"

\* C9: for every pair of equal-length (non-empty) binary label sequences,
\* the values reported as tp, fp, tn and fn are the numbers of positions with
\* (actual 1, predicted 1), (actual 0, predicted 1), (actual 0, predicted 0)
\* and (actual 1, predicted 0), and the four sum to the number of rows.
C9_ConfusionCountsReported ==
    (ScoresCellRan /\ "test_y" \in bound /\ Len(test_y) >= 1) =>
        /\ "output" \in bound
        /\ output.tp = Count(test_y, pred_y, 1, 1)
        /\ output.fp = Count(test_y, pred_y, 0, 1)
        /\ output.tn = Count(test_y, pred_y, 0, 0)
        /\ output.fn = Count(test_y, pred_y, 1, 0)
        /\ output.tp + output.fp + output.tn + output.fn = Len(test_y)

\* C9, the case the code handles: when both labels occur among the actual
\* and predicted values, the report holds the four counts under their names.
ConfusionCountsWhenBothLabels ==
    (ScoresCellRan /\ "test_y" \in bound
        /\ {0, 1} \subseteq Range(test_y) \cup Range(pred_y)) =>
        /\ "output" \in bound
        /\ output.tp = Count(test_y, pred_y, 1, 1)
        /\ output.fp = Count(test_y, pred_y, 0, 1)
        /\ output.tn = Count(test_y, pred_y, 0, 0)
        /\ output.fn = Count(test_y, pred_y, 1, 0)
        /\ output.tp + output.fp + output.tn + output.fn = Len(test_y)

\* a job the service reported failed
Unsuccessful(job) == job.status = "Failed"

\* C10: a failure reported by the training or the batch scoring service is
\* neither caught nor retried: every job is submitted at most once, and after
\* a failure no later stage runs (no further training job, no scoring
\* submission, no read of the output, no evaluation).
C10_FailureStopsTheRun ==
    /\ Len(transforms) <= 1
    /\ \A i, j \in 1..Len(training) :
          training[i].estimator = training[j].estimator => i = j
    /\ \A i \in 1..Len(training) :
          Unsuccessful(training[i]) =>
              /\ Len(training) = i
              /\ transforms = <<>>
              /\ BatchInputKey \notin DOMAIN s3
              /\ ~ PastTransformWait
              /\ pc \in {"fit_builtin_wait", "fit_customised_wait", "halted"}
    /\ \A i \in 1..Len(transforms) :
          Unsuccessful(transforms[i]) =>
              /\ ~ PastTransformWait
              /\ "pred_y" \notin bound
              /\ "output" \notin bound
              /\ pc \in {"transform_wait", "halted"}

\* the run halted on the failure of the second training job
C10_Witness ==
    /\ pc = "halted"
    /\ error = [cell |-> "fit_customised", exc |-> "JobFailed"]
    /\ Len(training) = 2
    /\ training[1].status = "Completed"
    /\ Unsuccessful(training[2])

\* C11: a model artifact is created once and never mutated: once an artifact
\* is stored under a key, no later step, in the same run or in a repeated run
\* of the notebook, writes different content to that key.
C11_ArtifactsNeverRewritten ==
    [][\A k \in DOMAIN artifacts :
          k \in DOMAIN artifacts' /\ artifacts'[k] = artifacts[k]]_vars

\* C11, the artifacts the code leaves alone: those the training jobs write,
\* each under the name of its job.  The uploaded local model has one fixed
\* key, which the next run writes again.
TrainingArtifactsNeverRewritten ==
    [][\A k \in DOMAIN artifacts \ {CustomisedModelKey} :
          k \in DOMAIN artifacts' /\ artifacts'[k] = artifacts[k]]_vars

C13_SplitSizes ==
    AfterSplit =>
        /\ NRows(train_data) = (7 * NRows(model_data)) \div 10
        /\ NRows(validation_data)
              = (9 * NRows(model_data)) \div 10 - (7 * NRows(model_data)) \div 10
        /\ NRows(test_data) = NRows(model_data) - (9 * NRows(model_data)) \div 10

\* C13, what the code computes: the split points are int(0.7 * N) and
\* int(0.9 * N) in double arithmetic, each the floor or one less.
SplitSizesInDoubles ==
    AfterSplit =>
        /\ NRows(train_data) = IntOfFloatProduct(Double07, NRows(model_data))
        /\ NRows(train_data) + NRows(validation_data)
              = IntOfFloatProduct(Double09, NRows(model_data))
        /\ (7 * NRows(model_data)) \div 10 - NRows(train_data) \in {0, 1}
        /\ (9 * NRows(model_data)) \div 10
              - (NRows(train_data) + NRows(validation_data)) \in {0, 1}

\* the names of the pairs of correlated columns
Pairs == {"Day", "Eve", "Night", "Intl"}

\* C14: the removal of redundant features removes the Charge column of each
\* (Mins, Charge) pair and keeps its Mins column; every other column (name,
\* dtype, values, order), the row count and the row order are unchanged.
C14_DropChargesFrame ==
    [][(pc = "drop_charges" /\ pc' = "get_dummies") =>
          /\ \A p \in Pairs :
                /\ ~ HasColumn(churn', <<p \o " Charge">>)
                /\ HasColumn(churn', <<p \o " Mins">>)
          /\ churn'.columns
                = SelectSeq(churn.columns,
                            LAMBDA c : c \notin {<<p \o " Charge">> : p \in Pairs})
          /\ \A i \in 1..Len(churn'.columns) :
                /\ Column(churn', churn'.columns[i]) = Column(churn, churn'.columns[i])
                /\ churn'.dtypes[i] = churn.dtypes[ColumnPos(churn, churn'.columns[i])]
          /\ churn'.index = churn.index
          /\ NRows(churn') = NRows(churn)]_vars

\* the charge columns have been removed from a table of several rows
C14_Witness ==
    /\ pc = "get_dummies"
    /\ NRows(churn) >= 3
    /\ Len(churn.columns) = Len(RawColumns) - 5
    /\ HasColumn(churn, <<"Day Mins">>)

\* C15: the target is the first column of the encoded table, 1 exactly when
\* the customer's Churn? value is True. and 0 otherwise, and no other column
\* carries the label; the training and validation files hold the rows of
\* their partitions alone, without a header row.
C15_TargetFirstNoHeader ==
    /\ Encoded =>
          /\ model_data.columns[1] = ChurnTrue
          /\ \A i \in 2..Len(model_data.columns) : model_data.columns[i][1] # "Churn?"
          /\ \A r \in 1..NRows(model_data) :
                model_data.data[r][1]
                   = IF ChurnValue(model_data.index[r], <<"Churn?">>) = "True."
                     THEN 1 ELSE 0
    /\ AfterSplit =>
          /\ files["train.csv"] = train_data.data
          /\ files["validation.csv"] = validation_data.data
          /\ \A r \in 1..Len(files["train.csv"]) :
                /\ files["train.csv"][r][1] \in {0, 1}
                /\ Len(files["train.csv"][r]) = Len(model_data.columns)
          /\ \A r \in 1..Len(files["validation.csv"]) :
                /\ files["validation.csv"][r][1] \in {0, 1}
                /\ Len(files["validation.csv"][r]) = Len(model_data.columns)

\* the training file holds a churner's row and another customer's row
C15_Witness ==
    /\ AfterSplit
    /\ \E r1, r2 \in 1..Len(files["train.csv"]) :
          /\ files["train.csv"][r1][1] = 1
          /\ files["train.csv"][r2][1] = 0

\* the scoring job of the run completed and its output is in the bucket
ScoringCompleted ==
    /\ Len(transforms) >= 1
    /\ transforms[1].status = "Completed"
    /\ transforms[1].output \in DOMAIN s3

\* the scoring job ended: completed with its output, or without one
ScoringEnded ==
    /\ Len(transforms) >= 1
    /\ (ScoringCompleted \/ transforms[1].status \in {"Failed", "Stopped"})

\* the evaluation cells computed the report from the scoring job's output
MetricsComputed ==
    /\ pc = "done"
    /\ "output" \in bound
    /\ batch_output = s3[transforms[1].output]
    /\ output = ScoreReport(GetScore(test_y, pred_y).value)

\* the run is over: with the metrics when the scoring job completed, and
\* otherwise halted at the step that failed
RunEnded ==
    IF ScoringCompleted THEN MetricsComputed
    ELSE pc = "halted" /\ error.cell # ""

\* C16: every submitted scoring job ends in a completed output artifact or
\* without one (a failure), and every run ends in one of two ways: with the
\* evaluation metrics computed from the completed output, or halted at the
\* failed step.  Here for the runs that have stopped; that every run stops,
\* the services reporting an end for every job, is RunEventuallyStops.
C16_RunEndsInMetricsOrHalt ==
    /\ (Len(transforms) >= 1 /\ transforms[1].status \in Terminal) => ScoringEnded
    /\ pc \in {"done", "halted"} => RunEnded

\* C16, what the code guarantees: under fair scheduling every run
\* eventually stops, at its last cell or at the cell that raised.
RunEventuallyStops == <>[](pc \in {"done", "halted"})

\* C17: the batch scoring job is submitted only after the built-in training
\* job has completed successfully, and the model it references is the
\* artifact produced by that job (not the customised model, not the artifact
\* of a job in progress).
C17_ScoringAfterBuiltinTraining ==
    \A i \in 1..Len(transforms) :
        /\ \E j \in 1..Len(training) :
              /\ training[j].estimator = "xgb"
              /\ training[j].status = "Completed"
              /\ transforms[i].model = ArtifactKey(training[j].name)
        /\ transforms[i].model \in DOMAIN artifacts
        /\ transforms[i].model # CustomisedModelKey
        /\ \A j \in 1..Len(training) :
              training[j].estimator = "customised_xgb" =>
                  transforms[i].model # ArtifactKey(training[j].name)

\* C17, what the code guarantees: the scoring job is submitted after the
\* built-in training job ended without failure (Completed or Stopped), on
\* that job's model and not on the customised one.
ScoringAfterBuiltinTrainingEnded ==
    \A i \in 1..Len(transforms) :
        /\ \E j \in 1..Len(training) :
              /\ training[j].estimator = "xgb"
              /\ training[j].status \in {"Completed", "Stopped"}
              /\ training[j].status = "Completed" =>
                     transforms[i].model \in DOMAIN artifacts
              /\ transforms[i].model = ArtifactKey(training[j].name)
        /\ transforms[i].model # CustomisedModelKey
        /\ \A j \in 1..Len(training) :
              training[j].estimator = "customised_xgb" =>
                  transforms[i].model # ArtifactKey(training[j].name)

\* C18: the evaluator compares the predictions with the actual labels of the
\* rows that were scored: the sequence passed to get_score as the actual
\* labels is the label column of the test partition, as long as the
\* predictions, the i-th prediction against the i-th row of the partition.
C18_ActualLabelsOfTestPartition ==
    ScoresCellRan =>
        /\ "test_y" \in bound
        /\ test_y = Column(test_data, ChurnTrue)
        /\ Len(test_y) = Len(pred_y)
        /\ error.exc # "NameError"

\* C19: in the extension, every request for a new batch transform job uses a
\* job name different from the name of every request sent earlier, whenever
\* the requests are made.
C19_JobNamesFresh ==
    \A i, j \in 1..Len(submitted) : i < j => submitted[i] # submitted[j]

\* C19, what the service guarantees: no two transform jobs have one name (a
\* request with a name in use is refused).
JobsHaveDistinctNames ==
    \A i, j \in 1..Len(transforms) : i < j => transforms[i].name # transforms[j].name

\* C20: a score equal to the cutoff 0.5 gets the label 0 (the tie goes to
\* the even integer), so the label 1 is given only to scores strictly
\* above 0.5.
C20_TieRoundsToZero ==
    Thresholded =>
        \A i \in 1..Len(batch_output) :
            /\ 2 * batch_output[i] = ScoreScale => pred_y[i] = 0
            /\ pred_y[i] = 1 => 2 * batch_output[i] > ScoreScale

\* a score of exactly 0.5 has been labelled, next to a score labelled 1
C20_Witness ==
    /\ Thresholded
    /\ \E i, j \in 1..Len(batch_output) :
          /\ 2 * batch_output[i] = ScoreScale
          /\ pred_y[i] = 0
          /\ pred_y[j] = 1

====
